---- MODULE Spec2Model ----
(***************************************************************************)
(* The client of the task-management application: the auth session manager *)
(* (contexts/AuthContext.tsx), the task collection manager                 *)
(* (contexts/TaskContext.tsx) and the route guards of App.tsx.             *)
(*                                                                         *)
(* JavaScript runs one handler at a time: a step of the model is either    *)
(* the synchronous part of a call up to its `await` (the request is then   *)
(* in flight) or the continuation that runs when a response arrives,       *)
(* or the render by which React mounts or unmounts the TaskProvider after  *)
(* the session changed.                                                    *)
(***************************************************************************)
EXTENDS Bags, FiniteSets, Integers, Sequences, TLC

VARIABLES
    token,        \* localStorage item 'token' (NoToken when the item is absent)
    user,         \* AuthProvider state `user`
    authLoading,  \* AuthProvider state `loading`
    tasks,        \* TaskProvider state `tasks`
    stats,        \* TaskProvider state `stats`
    taskLoading,  \* TaskProvider state `loading`
    provider,     \* whether a TaskProvider instance is mounted
    filters,      \* Tasks page state `filters`
    stored,       \* the tasks the server stores for the user
    served,       \* responses the server has computed, on their way to the client, oldest first
    issued,       \* the server: the identifiers it has given to records so far
    inOrder,      \* no stats response has arrived before an earlier one (history)
    form,         \* the form on screen: TaskForm, the Register form or the Profile form
    reqs,         \* bag of requests in flight, each with the continuation awaiting it
    last          \* what the handler that ran in the latest step did (history)

vars == <<token, user, authLoading, tasks, stats, taskLoading, provider, filters,
          stored, served, issued, inOrder, form, reqs, last>>

\* the server's side
server == <<stored, served, issued, inOrder>>

----------------------------------------------------------------------------
(* Bounds of the model *)

MaxPublicInflight == 2      \* login/register requests in flight that a submit may add to
MaxProtectedInflight == 1   \* authenticated requests in flight that a user action may add to
MaxTasks == 2               \* longest held task list
MaxFetchInflight == 2       \* task fetches in flight that a filter change may add to
MaxAnswered == 2            \* requests and computed responses in flight that a user action may add to
MaxFormInflight == 2        \* requests of forms in flight that a submit may add to

----------------------------------------------------------------------------
(* Values *)

NoToken == "no-token"
Null == "null"
Undefined == "undefined"

Tokens == {"t1", "t2"}
Users == {"u1", "u2"}
\* `message` of a response body: absent, empty, or a text
Messages == {Undefined, "", "server says no"}

TaskIds == {"a", "b"}
Titles == {"x", "y"}
\* the records here all have the status a new task is given
Task == [_id : TaskIds, title : Titles, status : {"pending"}]
StatsVals == {0, 1}            \* stats snapshots, told apart by their `total`
NoStats == 0 - 1               \* `stats` before the first snapshot (null)

RECURSIVE SeqsUpTo(_, _)
SeqsUpTo(S, n) ==
    IF n = 0 THEN {<<>>}
    ELSE LET shorter == SeqsUpTo(S, n - 1)
         IN shorter \cup {Append(s, x) : s \in {t \in shorter : Len(t) = n - 1}, x \in S}

DistinctIds(l) == \A i, j \in 1 .. Len(l) : l[i]._id = l[j]._id => i = j

\* the lists GET /tasks answers with: one record per identifier
TaskLists == {l \in SeqsUpTo(Task, MaxTasks) : DistinctIds(l)}

----------------------------------------------------------------------------
(* Filters.  A JavaScript object is held as the sequence of its            *)
(* <<key, value>> pairs, in the order of Object.keys.                      *)

\* the filters of a Tasks page that has just mounted
InitialFilters == [status |-> "", priority |-> "", category |-> ""]

\* what the selects and the text input of TaskFilters are set to here: "All"
\* and, for the status, one of its options
FilterValues ==
    [status |-> {"", "pending"}, priority |-> {""}, category |-> {""}]

\* "All" and two of the options of the status select
StatusChoices ==
    [status |-> {"", "pending", "completed"}, priority |-> {""}, category |-> {""}]

\* the argument `filters` of fetchTasks: not given, or an object
NoFilters == [given |-> FALSE, keys |-> <<>>]
Given(pairs) == [given |-> TRUE, keys |-> pairs]

\* arguments a caller of fetchTasks may pass
FilterArgs ==
    {NoFilters,
     Given(<<>>),
     Given(<<<<"status", "pending">>, <<"category", "work">>>>),
     Given(<<<<"status", "">>, <<"priority", "high">>, <<"category", Undefined>>>>)}

\* JavaScript truthiness of a filter value: undefined and '' are falsy
Truthy(v) == v \notin {Undefined, ""}

\* faulty variant: every key of the object is sent
Params_SendsEveryKey(f) ==
    IF f.given THEN f.keys ELSE <<>>

\* the URLSearchParams fetchTasks builds from its argument
Params(f) ==
    IF f.given THEN SelectSeq(f.keys, LAMBDA p : Truthy(p[2])) ELSE <<>>

\* Tasks.handleFilterChange: the object the page passes to fetchTasks
QueryParams(fl) ==
    Given((IF Truthy(fl.status) THEN <<<<"status", fl.status>>>> ELSE <<>>)
          \o (IF Truthy(fl.priority) THEN <<<<"priority", fl.priority>>>> ELSE <<>>)
          \o (IF Truthy(fl.category) THEN <<<<"category", fl.category>>>> ELSE <<>>))

----------------------------------------------------------------------------
(* Forms.  A string is held as the sequence of its characters, a date      *)
(* input as a sequence that is empty or holds the number of its day, and   *)
(* time in hours since the start of day 0, UTC.  The errors object of a    *)
(* form is held as the set of its <<field, message>> pairs.  The fields    *)
(* of a form are what its user has typed when submitting it: they are an   *)
(* input of the submit, recorded in its event.                             *)

NoId == "-"

Chars(n, c) == [i \in 1 .. n |-> c]

Range(f) == {f[i] : i \in DOMAIN f}

\* no form on screen
NoForm ==
    [kind |-> "none", task |-> NoId, loading |-> FALSE, errors |-> {}]

\* a form that has just mounted
NewForm(kind, task) == [NoForm EXCEPT !.kind = kind, !.task = task]

RECURSIVE TrimStart(_)
TrimStart(str) ==
    IF str # <<>> /\ Head(str) = " " THEN TrimStart(Tail(str)) ELSE str

RECURSIVE TrimEnd(_)
TrimEnd(str) ==
    IF str # <<>> /\ str[Len(str)] = " " THEN TrimEnd(SubSeq(str, 1, Len(str) - 1)) ELSE str

\* String.prototype.trim
Trim(str) == TrimEnd(TrimStart(str))

\* /\S+@\S+\.\S+/.test(str): somewhere in str a non-space character, '@',
\* one or more non-space characters, '.', a non-space character
EmailPattern(str) ==
    \E i, k \in 1 .. Len(str) :
        /\ 1 < i
        /\ i + 1 < k
        /\ k < Len(str)
        /\ str[i] = "@"
        /\ str[k] = "."
        /\ str[i - 1] # " "
        /\ \A j \in i + 1 .. k - 1 : str[j] # " "
        /\ str[k + 1] # " "

\* new Date(date).getTime() of a date input: the start of its day, UTC
DateTime(date) == date[1] * 24

\* new Date().setHours(0, 0, 0, 0) at time at.now in the time zone at.off
\* hours ahead of UTC: the start of the current local day
LocalMidnight(at) == ((at.now + at.off) \div 24) * 24 - at.off

\* the clock is not read
NoClock == [now |-> 0, off |-> 0]

\* the times and time zones at which a form is validated: early and late on
\* day 2, UTC, in zones behind, at and ahead of UTC
Clocks == {[now |-> 49, off |-> 0 - 5], [now |-> 49, off |-> 0], [now |-> 70, off |-> 3]}

\* TaskForm.validateForm: newErrors
TaskFormErrors(d, at) ==
    (IF Trim(d.title) = <<>> THEN {<<"title", "Title is required">>}
     ELSE IF Len(d.title) > 100 THEN {<<"title", "Title cannot exceed 100 characters">>}
     ELSE {})
    \cup (IF d.description # <<>> /\ Len(d.description) > 500
          THEN {<<"description", "Description cannot exceed 500 characters">>} ELSE {})
    \cup (IF d.category # <<>> /\ Len(d.category) > 50
          THEN {<<"category", "Category cannot exceed 50 characters">>} ELSE {})
    \cup (IF d.dueDate # <<>> /\ DateTime(d.dueDate) < LocalMidnight(at)
          THEN {<<"dueDate", "Due date cannot be in the past">>} ELSE {})

\* faulty variant: a password of five characters passes
RegisterErrors_FloorOfFive(d) ==
    (IF d.name = <<>> THEN {<<"name", "Name is required">>}
     ELSE IF Len(d.name) < 2 THEN {<<"name", "Name must be at least 2 characters">>}
     ELSE {})
    \cup (IF d.email = <<>> THEN {<<"email", "Email is required">>}
          ELSE IF ~EmailPattern(d.email) THEN {<<"email", "Email is invalid">>}
          ELSE {})
    \cup (IF d.password = <<>> THEN {<<"password", "Password is required">>}
          ELSE IF Len(d.password) < 5
          THEN {<<"password", "Password must be at least 6 characters">>}
          ELSE {})
    \cup (IF d.confirmPassword = <<>>
          THEN {<<"confirmPassword", "Please confirm your password">>}
          ELSE IF d.password # d.confirmPassword
          THEN {<<"confirmPassword", "Passwords do not match">>}
          ELSE {})

\* Register.validateForm: newErrors
RegisterErrors(d) ==
    (IF d.name = <<>> THEN {<<"name", "Name is required">>}
     ELSE IF Len(d.name) < 2 THEN {<<"name", "Name must be at least 2 characters">>}
     ELSE {})
    \cup (IF d.email = <<>> THEN {<<"email", "Email is required">>}
          ELSE IF ~EmailPattern(d.email) THEN {<<"email", "Email is invalid">>}
          ELSE {})
    \cup (IF d.password = <<>> THEN {<<"password", "Password is required">>}
          ELSE IF Len(d.password) < 6
          THEN {<<"password", "Password must be at least 6 characters">>}
          ELSE {})
    \cup (IF d.confirmPassword = <<>>
          THEN {<<"confirmPassword", "Please confirm your password">>}
          ELSE IF d.password # d.confirmPassword
          THEN {<<"confirmPassword", "Passwords do not match">>}
          ELSE {})

\* Profile.validateForm: newErrors
ProfileErrors(d) ==
    (IF Trim(d.name) = <<>> THEN {<<"name", "Name is required">>}
     ELSE IF Len(d.name) < 2 THEN {<<"name", "Name must be at least 2 characters">>}
     ELSE {})
    \cup (IF Trim(d.email) = <<>> THEN {<<"email", "Email is required">>}
          ELSE IF ~EmailPattern(d.email) THEN {<<"email", "Email is invalid">>}
          ELSE {})

\* what the user may have typed into a form when submitting it
GoodEmail == <<"a", "@", "b", ".", "c">>
BadEmail == <<"a", "@", "b">>
Secret == Chars(6, "s")

TaskInput(title, description, category, dueDate) ==
    [title |-> title, description |-> description, category |-> category, dueDate |-> dueDate]

TaskInputs ==
    {TaskInput(<<"a">>, <<>>, <<>>, <<>>),
     TaskInput(Chars(100, "a"), Chars(500, "d"), Chars(50, "c"), <<2>>),
     TaskInput(<<" ", " ">>, Chars(501, "d"), Chars(51, "c"), <<1>>)}

RegisterInput(name, email, password, confirmPassword) ==
    [name |-> name, email |-> email, password |-> password,
     confirmPassword |-> confirmPassword]

RegisterInputs ==
    {RegisterInput(<<"a", "b">>, GoodEmail, Secret, Secret),
     RegisterInput(<<"a">>, BadEmail, Chars(5, "s"), <<>>),
     RegisterInput(<<"a", "b">>, GoodEmail, Secret, Chars(6, "t"))}

ProfileInputs ==
    {[name |-> <<"a", "b">>, email |-> GoodEmail],
     [name |-> <<" ", " ">>, email |-> BadEmail]}

\* the fields at and around the limits of the rules
TitleCases == {<<>>, <<" ", " ">>, <<"a">>, <<" ", "a", " ">>, Chars(100, "a"), Chars(101, "a")}
DescriptionCases == {<<>>, Chars(500, "d"), Chars(501, "d")}
CategoryCases == {<<>>, Chars(50, "c"), Chars(51, "c")}
DueDateCases == {<<1>>, <<2>>, <<3>>}

\* without a due date, in every combination of the other fields
UndatedTaskInputs ==
    {TaskInput(t, d, c, <<>>) :
        t \in TitleCases, d \in DescriptionCases, c \in CategoryCases}

\* with a due date, the other fields passing or the title failing
DatedTaskInputs ==
    {TaskInput(t, <<>>, <<>>, due) : t \in {<<>>, <<"a">>}, due \in DueDateCases}

\* the first and the last hour of day 2, UTC, and two hours in between, in
\* zones behind, at and ahead of UTC
EveryClock == {[now |-> n, off |-> o] : n \in {48, 49, 70, 71}, o \in {0 - 5, 0, 3}}

NameCases == {<<>>, <<"a">>, <<" ", " ">>, <<"a", "b">>}
EmailCases ==
    {<<>>, BadEmail, GoodEmail, <<"@", "b", ".", "c">>, <<"a", "@", ".", "c">>,
     <<"a", "@", "b", ".">>, <<" ", "a", "@", "b", ".", "c", " ">>}
PasswordCases == {<<>>, Chars(5, "s"), Secret}
ConfirmCases == {<<>>, Chars(5, "s"), Secret, Chars(6, "t")}

EveryRegisterInput ==
    {RegisterInput(n, e, pw, c) :
        n \in NameCases, e \in EmailCases, pw \in PasswordCases, c \in ConfirmCases}

----------------------------------------------------------------------------
(* Responses.  kind "ok": body with success=true; "fail": body with        *)
(* success=false; "reject": the promise of the request is rejected, with   *)
(* status 0 when there is no response at all (network failure).            *)

(* `data` is held as a sequence: the list of GET /tasks, the one record of *)
(* a single-task response, the one snapshot of GET /tasks/stats, and       *)
(* empty when the body has no data.                                        *)

NoData == <<>>

Resp(kind, status, message, tok, usr, data) ==
    [kind |-> kind, status |-> status, message |-> message,
     token |-> tok, user |-> usr, data |-> data]

Failures ==
    {Resp("fail", 200, m, NoToken, Null, NoData) : m \in Messages}
    \cup {Resp("reject", 0, Undefined, NoToken, Null, NoData),
          Resp("reject", 400, "server says no", NoToken, Null, NoData),
          Resp("reject", 401, Undefined, NoToken, Null, NoData)}

\* POST /auth/login, POST /auth/register -> {success, token, user}
SessionResponses ==
    {Resp("ok", 200, Undefined, t, u, NoData) : t \in Tokens, u \in Users} \cup Failures

\* GET /auth/me, PUT /auth/profile -> {success, user}
UserResponses ==
    {Resp("ok", 200, Undefined, NoToken, u, NoData) : u \in Users} \cup Failures

\* POST /tasks, PUT /tasks/:id, DELETE /tasks/:id -> {success, data: Task}
TaskResponses ==
    {Resp("ok", 200, Undefined, NoToken, Null, <<t>>) : t \in Task} \cup Failures

\* GET /tasks -> {success, data: Task[]}
ListResponses ==
    {Resp("ok", 200, Undefined, NoToken, Null, l) : l \in TaskLists} \cup Failures

\* GET /tasks/stats -> {success, data: TaskStats}
StatsResponses ==
    {Resp("ok", 200, Undefined, NoToken, Null, <<s>>) : s \in StatsVals} \cup Failures

----------------------------------------------------------------------------
(* Requests in flight *)

\* live: the provider instance that awaits the response is still mounted;
\* query: the query parameters of the URL; form: "-" when no form awaits the
\* response, "open" when the form instance that sent the request awaits it,
\* "gone" when that instance has unmounted
Req(op, id, live) == [op |-> op, id |-> id, live |-> live, query |-> <<>>, form |-> "-"]

\* a request sent by the handleSubmit of the form on screen
FormReq(op, id) == [Req(op, id, TRUE) EXCEPT !.form = "open"]

\* GET /tasks?<query>
FetchReq(query, live) == [Req("fetchTasks", NoId, live) EXCEPT !.query = query]

AuthOps == {"me", "login", "register", "updateProfile"}
TaskOps == {"fetchTasks", "fetchStats", "createTask", "updateTask", "deleteTask", "getTask"}
\* the requests that carry the bearer token of an established session
AuthenticatedOps == {"me", "updateProfile"} \cup TaskOps

\* the requests of an operation whose response no form awaits
InFlight(op) == {r \in BagToSet(reqs) : r.op = op /\ r.form = "-"}
\* the requests sent by the forms
FormInFlight(ops) == {r \in BagToSet(reqs) : r.op \in ops /\ r.form # "-"}

Count(ops) == BagCardinality([r \in {x \in BagToSet(reqs) : x.op \in ops} |-> reqs[r]])

\* a page of the public routes may send one more request
PublicRoom == Count({"login", "register"}) < MaxPublicInflight
\* a page of the protected route may send one more request
ProtectedRoom == Count(AuthenticatedOps) < MaxProtectedInflight
\* the Tasks page may send one more task fetch
FetchRoom == Count({"fetchTasks"}) < MaxFetchInflight


\* the form instance on screen unmounts
Orphan(rqs) ==
    LET S == {[r EXCEPT !.form = IF @ = "open" THEN "gone" ELSE @] : r \in BagToSet(rqs)}
    IN [x \in S |-> CopiesIn(x, rqs)
                    + (IF x.form = "gone" THEN CopiesIn([x EXCEPT !.form = "open"], rqs) ELSE 0)]

\* the forms may send one more request
FormRoom == Count({"createTask", "updateTask", "register", "updateProfile"}) < MaxFormInflight

Stale(rqs) ==
    LET S == {[r EXCEPT !.live = (r.op \in AuthOps)] : r \in BagToSet(rqs)}
    IN [x \in S |-> CopiesIn(x, rqs)
                    + (IF x.live THEN 0 ELSE CopiesIn([x EXCEPT !.live = TRUE], rqs))]

----------------------------------------------------------------------------
(* Notifications and the record of the latest handler *)

Toast(type, text) == <<type, text>>

\* JavaScript `message || fallback`: undefined and '' are falsy
OrElse(message, fallback) ==
    IF message \in {Undefined, ""} THEN fallback ELSE message

NoResp == Resp("call", 0, Undefined, NoToken, Null, NoData)

\* a response of kind "call" (NoResp): the handler ran up to its await;
\* args: the filters a fetchTasks call was given; query: the query
\* parameters of the request the handler awaited
Ev(op, id, live, resp, ret, toasts, sent) ==
    [op |-> op, id |-> id, live |-> live, resp |-> resp, ret |-> ret,
     toasts |-> toasts, sent |-> sent, args |-> NoFilters, query |-> <<>>]

----------------------------------------------------------------------------
(* Route guards (App.tsx) *)

\* faulty variant: the guard waits for loading but does not look at the user
ProtectedRoute_IgnoresUser(usr, ld) ==
    IF ld THEN "spinner" ELSE "children"

ProtectedRoute(usr, ld) ==
    IF ld THEN "spinner" ELSE IF usr # Null THEN "children" ELSE "navigate-login"

\* faulty variant: the guard does not wait for the initial check
PublicRoute_IgnoresLoading(usr, ld) ==
    IF usr = Null THEN "children" ELSE "navigate-dashboard"

PublicRoute(usr, ld) ==
    IF ld THEN "spinner" ELSE IF usr = Null THEN "children" ELSE "navigate-dashboard"

Protected == ProtectedRoute(user, authLoading) = "children"

\* the pages under the TaskProvider (Dashboard, Tasks) are on screen
Mounted == Protected /\ provider = "mounted"

----------------------------------------------------------------------------
(* API client: the response interceptor.  On an unauthorized response to   *)
(* an authenticated request it clears the session before the caller's      *)
(* continuation sees the rejection.                                        *)

Unauthorized(op, resp) ==
    op \in AuthenticatedOps /\ resp.kind = "reject" /\ resp.status = 401

Interceptor(op, resp, session) ==
    IF Unauthorized(op, resp) THEN [token |-> NoToken, user |-> Null] ELSE session

Session == [token |-> token, user |-> user]

----------------------------------------------------------------------------
(* The end of a handler: the state it leaves and what it did *)

Assign(tok, usr, ald, tks, sts, tld, rqs, ev) ==
    /\ token' = tok
    /\ user' = usr
    /\ authLoading' = ald
    /\ tasks' = tks
    /\ stats' = sts
    /\ taskLoading' = tld
    /\ reqs' = rqs
    /\ last' = ev
    /\ UNCHANGED provider

\* a handler that is not one of the Tasks page, answered by any server
Commit(tok, usr, ald, tks, sts, tld, rqs, ev) ==
    /\ Assign(tok, usr, ald, tks, sts, tld, rqs, ev)
    /\ UNCHANGED <<filters, server, form>>

\* a step of the auth manager: the task manager's state is not touched
CommitAuth(tok, usr, ald, rqs, ev) ==
    Commit(tok, usr, ald, tasks, stats, taskLoading, rqs, ev)

Take(r) == reqs (-) SetToBag({r})
Put(rqs, r) == rqs (+) SetToBag({r})

----------------------------------------------------------------------------
(* Auth session manager (AuthContext.tsx) *)

Init ==
    /\ token \in Tokens \cup {NoToken}
    /\ user = Null
    /\ authLoading = TRUE
    /\ tasks = <<>>
    /\ stats = NoStats
    /\ taskLoading = FALSE
    /\ provider = "absent"
    /\ filters = InitialFilters
    /\ stored = {}
    /\ served = <<>>
    /\ issued = {}
    /\ inOrder = TRUE
    /\ form = NoForm
    /\ reqs = EmptyBag
    /\ last = Ev("init", NoId, TRUE, NoResp, "void", <<>>, <<>>)

\* checkAuthStatus up to `await api.get('/auth/me')`
CheckAuthStatus ==
    /\ last.op = "init"
    /\ IF token = NoToken
       THEN CommitAuth(token, user, FALSE, reqs,
                       Ev("checkAuthStatus", NoId, TRUE, NoResp, "void", <<>>, <<>>))
       ELSE CommitAuth(token, user, authLoading, Put(reqs, Req("me", NoId, TRUE)),
                       Ev("checkAuthStatus", NoId, TRUE, NoResp, "void", <<>>, <<"me">>))

\* faulty variant: a body with success=false does not remove the token
CheckAuthStatusDone_KeepsTokenOnFail(resp, session) ==
    IF resp.kind = "ok"
    THEN [token |-> session.token, user |-> resp.user]
    ELSE IF resp.kind = "fail"
    THEN session
    ELSE [token |-> NoToken, user |-> session.user]

\* checkAuthStatus after the await: the session it leaves
CheckAuthStatusDone(resp, session) ==
    IF resp.kind = "ok"
    THEN [token |-> session.token, user |-> resp.user]
    ELSE [token |-> NoToken, user |-> session.user]

CheckAuthStatusResponse ==
    \E r \in InFlight("me"), resp \in UserResponses :
        LET s == CheckAuthStatusDone(resp, Interceptor("me", resp, Session))
        IN CommitAuth(s.token, s.user, FALSE, Take(r),
                      Ev("checkAuthStatus", NoId, TRUE, resp, "void", <<>>, <<>>))

\* faulty variant: the token of the response is not stored
LoginDone_TokenNotStored(resp, session) ==
    IF resp.kind = "ok"
    THEN [token |-> session.token, user |-> resp.user, ret |-> "true",
          toasts |-> <<Toast("success", "Login successful!")>>]
    ELSE [token |-> session.token, user |-> session.user, ret |-> "false",
          toasts |-> <<Toast("error", OrElse(resp.message, "Login failed"))>>]

\* faulty variant: a failed registration removes the stored token
RegisterDone_ClearsOnFailure(resp, session) ==
    IF resp.kind = "ok"
    THEN [token |-> resp.token, user |-> resp.user, ret |-> "true",
          toasts |-> <<Toast("success", "Registration successful!")>>]
    ELSE [token |-> NoToken, user |-> session.user, ret |-> "false",
          toasts |-> <<Toast("error", OrElse(resp.message, "Registration failed"))>>]

\* login / register after the await
LoginDone(resp, session) ==
    IF resp.kind = "ok"
    THEN [token |-> resp.token, user |-> resp.user, ret |-> "true",
          toasts |-> <<Toast("success", "Login successful!")>>]
    ELSE [token |-> session.token, user |-> session.user, ret |-> "false",
          toasts |-> <<Toast("error", OrElse(resp.message, "Login failed"))>>]

RegisterDone(resp, session) ==
    IF resp.kind = "ok"
    THEN [token |-> resp.token, user |-> resp.user, ret |-> "true",
          toasts |-> <<Toast("success", "Registration successful!")>>]
    ELSE [token |-> session.token, user |-> session.user, ret |-> "false",
          toasts |-> <<Toast("error", OrElse(resp.message, "Registration failed"))>>]

\* the Login page is rendered and submits
Login ==
    /\ PublicRoute(user, authLoading) = "children"
    /\ PublicRoom
    /\ CommitAuth(token, user, authLoading, Put(reqs, Req("login", NoId, TRUE)),
                  Ev("login", NoId, TRUE, NoResp, "void", <<>>, <<"login">>))

LoginResponse ==
    \E r \in InFlight("login"), resp \in SessionResponses :
        LET d == LoginDone(resp, Interceptor("login", resp, Session))
        IN CommitAuth(d.token, d.user, authLoading, Take(r),
                      Ev("login", NoId, TRUE, resp, d.ret, d.toasts, <<>>))

\* the Register page is rendered and submits a valid form
Register ==
    /\ PublicRoute(user, authLoading) = "children"
    /\ PublicRoom
    /\ CommitAuth(token, user, authLoading, Put(reqs, Req("register", NoId, TRUE)),
                  Ev("register", NoId, TRUE, NoResp, "void", <<>>, <<"register">>))

RegisterResponse ==
    \E r \in InFlight("register"), resp \in SessionResponses :
        LET d == RegisterDone(resp, Interceptor("register", resp, Session))
        IN CommitAuth(d.token, d.user, authLoading, Take(r),
                      Ev("register", NoId, TRUE, resp, d.ret, d.toasts, <<>>))

\* faulty variant: the token is removed but the user is kept
LogoutDone_KeepsUser(session) ==
    [token |-> NoToken, user |-> session.user,
     toasts |-> <<Toast("success", "Logged out successfully")>>, sent |-> <<>>]

\* logout: synchronous, no request
LogoutDone(session) ==
    [token |-> NoToken, user |-> Null,
     toasts |-> <<Toast("success", "Logged out successfully")>>, sent |-> <<>>]

Logout ==
    /\ Protected
    /\ LET d == LogoutDone(Session)
       IN CommitAuth(d.token, d.user, authLoading,
                     IF d.sent = <<>> THEN reqs ELSE Put(reqs, Req(d.sent[1], NoId, TRUE)),
                     Ev("logout", NoId, TRUE, NoResp, "void", d.toasts, d.sent))

\* faulty variant: a failed update resets the user
UpdateProfileDone_ResetsOnFailure(resp, session) ==
    IF resp.kind = "ok"
    THEN [token |-> session.token, user |-> resp.user, ret |-> "true",
          toasts |-> <<Toast("success", "Profile updated successfully!")>>]
    ELSE [token |-> session.token, user |-> Null, ret |-> "false",
          toasts |-> <<Toast("error", OrElse(resp.message, "Profile update failed"))>>]

\* updateProfile after the await
UpdateProfileDone(resp, session) ==
    IF resp.kind = "ok"
    THEN [token |-> session.token, user |-> resp.user, ret |-> "true",
          toasts |-> <<Toast("success", "Profile updated successfully!")>>]
    ELSE [token |-> session.token, user |-> session.user, ret |-> "false",
          toasts |-> <<Toast("error", OrElse(resp.message, "Profile update failed"))>>]

\* the Profile page is rendered and submits a valid form
UpdateProfile ==
    /\ Protected
    /\ ProtectedRoom
    /\ CommitAuth(token, user, authLoading, Put(reqs, Req("updateProfile", NoId, TRUE)),
                  Ev("updateProfile", NoId, TRUE, NoResp, "void", <<>>, <<"updateProfile">>))

UpdateProfileResponse ==
    \E r \in InFlight("updateProfile"), resp \in UserResponses :
        LET d == UpdateProfileDone(resp, Interceptor("updateProfile", resp, Session))
        IN CommitAuth(d.token, d.user, authLoading, Take(r),
                      Ev("updateProfile", NoId, TRUE, resp, d.ret, d.toasts, <<>>))

NextAuth ==
    \/ CheckAuthStatus
    \/ CheckAuthStatusResponse
    \/ Login
    \/ LoginResponse
    \/ Register
    \/ RegisterResponse
    \/ Logout
    \/ UpdateProfile
    \/ UpdateProfileResponse

----------------------------------------------------------------------------
(* Task collection manager (TaskContext.tsx).  A continuation whose        *)
(* provider has unmounted (live = FALSE) still runs, but its state         *)
(* setters update nothing.                                                 *)

\* faulty variant: the setters of an unmounted provider update the state
TaskStep_UpdatesUnmounted(r, resp, d, rqs) ==
    LET s == Interceptor(r.op, resp, Session)
        sent == d.sent
        rqs2 == IF sent = <<>> THEN rqs ELSE Put(rqs, Req(sent[1], NoId, r.live))
        ev == [Ev(r.op, r.id, r.live, resp, d.ret, d.toasts, sent) EXCEPT !.query = r.query]
    IN Assign(s.token, s.user, authLoading, d.tasks, d.stats, d.loading, rqs2, ev)

\* a continuation of the task manager; the session changes only through the
\* interceptor
TaskStep(r, resp, d, rqs) ==
    LET s == Interceptor(r.op, resp, Session)
        sent == d.sent
        rqs2 == IF sent = <<>> THEN rqs ELSE Put(rqs, Req(sent[1], NoId, r.live))
        ev == [Ev(r.op, r.id, r.live, resp, d.ret, d.toasts, sent) EXCEPT !.query = r.query]
    IN IF r.live
       THEN Assign(s.token, s.user, authLoading, d.tasks, d.stats, d.loading, rqs2, ev)
       ELSE Assign(s.token, s.user, authLoading, tasks, stats, taskLoading, rqs2, ev)

CommitTask(r, resp, d, rqs) ==
    /\ TaskStep(r, resp, d, rqs)
    /\ UNCHANGED <<filters, server, form>>

Held == [tasks |-> tasks, stats |-> stats, loading |-> taskLoading]

Result(held, ret, toasts, sent) ==
    [tasks |-> held.tasks, stats |-> held.stats, loading |-> held.loading,
     ret |-> ret, toasts |-> toasts, sent |-> sent]

\* fetchTasks(f) up to `await api.get('/tasks?...')`
FetchTasksCall(f) ==
    /\ Assign(token, user, authLoading, tasks, stats, TRUE,
           Put(reqs, FetchReq(Params(f), TRUE)),
           [Ev("fetchTasks", NoId, TRUE, NoResp, "void", <<>>, <<"fetchTasks">>)
               EXCEPT !.args = f])
    /\ UNCHANGED <<server, form>>

\* a component under the provider calls fetchTasks()
FetchTasks ==
    /\ Mounted
    /\ ProtectedRoom
    /\ FetchTasksCall(NoFilters)
    /\ UNCHANGED filters

\* a component under the provider calls fetchTasks(f)
FetchTasksWith ==
    \E f \in FilterArgs :
        /\ Mounted
        /\ ProtectedRoom
        /\ FetchTasksCall(f)
        /\ UNCHANGED filters

\* TaskFilters.handleFilterChange: one filter of the Tasks page is set, and
\* the page's effect calls handleFilterChange, which calls fetchTasks
SetFilterOf(values) ==
    \E key \in DOMAIN values :
        \E value \in values[key] :
            /\ Mounted
            /\ FetchRoom
            /\ filters' = [filters EXCEPT ![key] = value]
            /\ FetchTasksCall(QueryParams(filters'))

SetFilter == SetFilterOf(FilterValues)

\* TaskFilters.clearFilters, followed by the page's effect
ClearFilters ==
    /\ Mounted
    /\ FetchRoom
    /\ filters' = InitialFilters
    /\ FetchTasksCall(QueryParams(filters'))

\* faulty variant: the response list is put in front of the held list
FetchTasksDone_Merges(resp, held) ==
    IF resp.kind = "ok"
    THEN Result([held EXCEPT !.tasks = resp.data \o @, !.loading = FALSE], "void", <<>>, <<>>)
    ELSE IF resp.kind = "fail"
    THEN Result([held EXCEPT !.loading = FALSE], "void", <<>>, <<>>)
    ELSE Result([held EXCEPT !.loading = FALSE], "void",
                <<Toast("error", "Failed to fetch tasks")>>, <<>>)

\* faulty variant: a response that arrives when loading is already false is
\* dropped
FetchTasksDone_FirstArrivalWins(resp, held) ==
    IF resp.kind = "ok" /\ held.loading
    THEN Result([held EXCEPT !.tasks = resp.data, !.loading = FALSE], "void", <<>>, <<>>)
    ELSE IF resp.kind \in {"ok", "fail"}
    THEN Result([held EXCEPT !.loading = FALSE], "void", <<>>, <<>>)
    ELSE Result([held EXCEPT !.loading = FALSE], "void",
                <<Toast("error", "Failed to fetch tasks")>>, <<>>)

\* fetchTasks after the await
FetchTasksDone(resp, held) ==
    IF resp.kind = "ok"
    THEN Result([held EXCEPT !.tasks = resp.data, !.loading = FALSE], "void", <<>>, <<>>)
    ELSE IF resp.kind = "fail"
    THEN Result([held EXCEPT !.loading = FALSE], "void", <<>>, <<>>)
    ELSE Result([held EXCEPT !.loading = FALSE], "void",
                <<Toast("error", "Failed to fetch tasks")>>, <<>>)

FetchTasksResponse ==
    \E r \in InFlight("fetchTasks"), resp \in ListResponses :
        CommitTask(r, resp, FetchTasksDone(resp, Held), Take(r))

\* faulty variant: no catch block, a rejected request is thrown on
FetchStatsDone_Rethrows(resp, held) ==
    IF resp.kind = "ok"
    THEN Result([held EXCEPT !.stats = resp.data[1]], "void", <<>>, <<>>)
    ELSE IF resp.kind = "fail"
    THEN Result(held, "void", <<>>, <<>>)
    ELSE Result(held, "throw", <<>>, <<>>)

\* faulty variant: a snapshot is stored only while none is held
FetchStatsDone_KeepsFirst(resp, held) ==
    IF resp.kind = "ok" /\ held.stats = NoStats
    THEN Result([held EXCEPT !.stats = resp.data[1]], "void", <<>>, <<>>)
    ELSE Result(held, "void", <<>>, <<>>)

\* fetchStats after the await
FetchStatsDone(resp, held) ==
    IF resp.kind = "ok"
    THEN Result([held EXCEPT !.stats = resp.data[1]], "void", <<>>, <<>>)
    ELSE Result(held, "void", <<>>, <<>>)

FetchStatsResponse ==
    \E r \in InFlight("fetchStats"), resp \in StatsResponses :
        CommitTask(r, resp, FetchStatsDone(resp, Held), Take(r))

\* createTask up to `await api.post('/tasks', taskData)`
CreateTask ==
    /\ Mounted
    /\ ProtectedRoom
    /\ Commit(token, user, authLoading, tasks, stats, taskLoading,
              Put(reqs, Req("createTask", NoId, TRUE)),
              Ev("createTask", NoId, TRUE, NoResp, "void", <<>>, <<"createTask">>))

\* faulty variant: the new record replaces the held list
CreateTaskDone_DropsOthers(resp, held) ==
    IF resp.kind = "ok"
    THEN Result([held EXCEPT !.tasks = <<resp.data[1]>>], "true",
                <<Toast("success", "Task created successfully!")>>, <<"fetchStats">>)
    ELSE Result(held, "false",
                <<Toast("error", OrElse(resp.message, "Failed to create task"))>>, <<>>)

\* faulty variant: the new record is appended
CreateTaskDone_Appends(resp, held) ==
    IF resp.kind = "ok"
    THEN Result([held EXCEPT !.tasks = @ \o <<resp.data[1]>>], "true",
                <<Toast("success", "Task created successfully!")>>, <<"fetchStats">>)
    ELSE Result(held, "false",
                <<Toast("error", OrElse(resp.message, "Failed to create task"))>>, <<>>)

\* createTask after the await
CreateTaskDone(resp, held) ==
    IF resp.kind = "ok"
    THEN Result([held EXCEPT !.tasks = <<resp.data[1]>> \o @], "true",
                <<Toast("success", "Task created successfully!")>>, <<"fetchStats">>)
    ELSE Result(held, "false",
                <<Toast("error", OrElse(resp.message, "Failed to create task"))>>, <<>>)

CreateTaskResponse ==
    \E r \in InFlight("createTask"), resp \in TaskResponses :
        \* bound: the held list is not grown past MaxTasks
        /\ (resp.kind = "ok" /\ r.live) => Len(tasks) < MaxTasks
        /\ CommitTask(r, resp, CreateTaskDone(resp, Held), Take(r))

\* updateTask up to `await api.put('/tasks/:id', taskData)`
UpdateTask ==
    \E id \in TaskIds :
        /\ Mounted
        /\ ProtectedRoom
        /\ Commit(token, user, authLoading, tasks, stats, taskLoading,
                  Put(reqs, Req("updateTask", id, TRUE)),
                  Ev("updateTask", id, TRUE, NoResp, "void", <<>>, <<"updateTask">>))

\* faulty variant: the match is on the returned record's identifier
UpdateTaskDone_MatchesReturnedId(id, resp, held) ==
    IF resp.kind = "ok"
    THEN Result([held EXCEPT !.tasks =
                    [i \in 1 .. Len(@) |->
                        IF @[i]._id = resp.data[1]._id THEN resp.data[1] ELSE @[i]]],
                "true", <<Toast("success", "Task updated successfully!")>>, <<"fetchStats">>)
    ELSE Result(held, "false",
                <<Toast("error", OrElse(resp.message, "Failed to update task"))>>, <<>>)

\* faulty variant: a successful update does not refresh the stats
UpdateTaskDone_NoRefresh(id, resp, held) ==
    IF resp.kind = "ok"
    THEN Result([held EXCEPT !.tasks =
                    [i \in 1 .. Len(@) |-> IF @[i]._id = id THEN resp.data[1] ELSE @[i]]],
                "true", <<Toast("success", "Task updated successfully!")>>, <<>>)
    ELSE Result(held, "false",
                <<Toast("error", OrElse(resp.message, "Failed to update task"))>>, <<>>)

\* updateTask after the await
UpdateTaskDone(id, resp, held) ==
    IF resp.kind = "ok"
    THEN Result([held EXCEPT !.tasks =
                    [i \in 1 .. Len(@) |-> IF @[i]._id = id THEN resp.data[1] ELSE @[i]]],
                "true", <<Toast("success", "Task updated successfully!")>>, <<"fetchStats">>)
    ELSE Result(held, "false",
                <<Toast("error", OrElse(resp.message, "Failed to update task"))>>, <<>>)

UpdateTaskResponse ==
    \E r \in InFlight("updateTask"), resp \in TaskResponses :
        CommitTask(r, resp, UpdateTaskDone(r.id, resp, Held), Take(r))

\* deleteTask up to `await api.delete('/tasks/:id')`
DeleteTask ==
    \E id \in TaskIds :
        /\ Mounted
        /\ ProtectedRoom
        /\ Commit(token, user, authLoading, tasks, stats, taskLoading,
                  Put(reqs, Req("deleteTask", id, TRUE)),
                  Ev("deleteTask", id, TRUE, NoResp, "void", <<>>, <<"deleteTask">>))

\* faulty variant: the stats are refreshed on failure too
DeleteTaskDone_RefreshesOnFailure(id, resp, held) ==
    IF resp.kind = "ok"
    THEN Result([held EXCEPT !.tasks = SelectSeq(@, LAMBDA t : t._id # id)], "true",
                <<Toast("success", "Task deleted successfully!")>>, <<"fetchStats">>)
    ELSE Result(held, "false",
                <<Toast("error", OrElse(resp.message, "Failed to delete task"))>>,
                <<"fetchStats">>)

\* faulty variant: the filter keeps the matching record
KeepOthers_Inverted(id, l) == SelectSeq(l, LAMBDA t : t._id = id)

KeepOthers(id, l) == SelectSeq(l, LAMBDA t : t._id # id)

\* deleteTask after the await
DeleteTaskDone(id, resp, held) ==
    IF resp.kind = "ok"
    THEN Result([held EXCEPT !.tasks = KeepOthers(id, @)], "true",
                <<Toast("success", "Task deleted successfully!")>>, <<"fetchStats">>)
    ELSE Result(held, "false",
                <<Toast("error", OrElse(resp.message, "Failed to delete task"))>>, <<>>)

DeleteTaskResponse ==
    \E r \in InFlight("deleteTask"), resp \in TaskResponses :
        CommitTask(r, resp, DeleteTaskDone(r.id, resp, Held), Take(r))

\* getTask up to `await api.get('/tasks/:id')`
GetTask ==
    \E id \in TaskIds :
        /\ Mounted
        /\ ProtectedRoom
        /\ Commit(token, user, authLoading, tasks, stats, taskLoading,
                  Put(reqs, Req("getTask", id, TRUE)),
                  Ev("getTask", id, TRUE, NoResp, "void", <<>>, <<"getTask">>))

\* faulty variant: the fetched record is also put into the held list
GetTaskDone_StoresRecord(resp, held) ==
    IF resp.kind = "ok"
    THEN Result([held EXCEPT !.tasks = resp.data], resp.data, <<>>, <<>>)
    ELSE Result(held, <<>>, <<>>, <<>>)

\* getTask after the await.  What it returns is held as a sequence: the one
\* record of the response, or empty for null
GetTaskDone(resp, held) ==
    IF resp.kind = "ok"
    THEN Result(held, resp.data, <<>>, <<>>)
    ELSE Result(held, <<>>, <<>>, <<>>)

GetTaskResponse ==
    \E r \in InFlight("getTask"), resp \in TaskResponses :
        CommitTask(r, resp, GetTaskDone(resp, Held), Take(r))

\* App renders the protected route's children: a new TaskProvider mounts with
\* empty state and its effect calls fetchTasks() and fetchStats()
Mount ==
    /\ Protected
    /\ provider = "absent"
    /\ Count(AuthenticatedOps) <= MaxProtectedInflight    \* bound on what earlier instances left in flight
    /\ provider' = "mounted"
    /\ tasks' = <<>>
    /\ stats' = NoStats
    /\ taskLoading' = TRUE
    /\ filters' = InitialFilters
    /\ reqs' = Put(Put(reqs, FetchReq(Params(NoFilters), TRUE)), Req("fetchStats", NoId, TRUE))
    /\ last' = Ev("mount", NoId, TRUE, NoResp, "void", <<>>, <<"fetchTasks", "fetchStats">>)
    /\ UNCHANGED <<token, user, authLoading, server, form>>

\* App stops rendering the protected route's children: the TaskProvider
\* and the pages under it unmount, and what they left in flight updates
\* nothing from now on
Unmount ==
    /\ ~Protected
    /\ provider = "mounted"
    /\ provider' = "absent"
    /\ reqs' = Orphan(Stale(reqs))
    /\ form' = NoForm
    /\ last' = Ev("unmount", NoId, TRUE, NoResp, "void", <<>>, <<>>)
    /\ UNCHANGED <<token, user, authLoading, tasks, stats, taskLoading, filters, server>>

NextTask ==
    \/ Mount
    \/ Unmount
    \/ FetchTasks
    \/ FetchTasksResponse
    \/ FetchStatsResponse
    \/ CreateTask
    \/ CreateTaskResponse
    \/ UpdateTask
    \/ UpdateTaskResponse
    \/ DeleteTask
    \/ DeleteTaskResponse
    \/ GetTask
    \/ GetTaskResponse

\* the protected pages of an established session, with one request of each
\* kind an authenticated page sends: task fetch, stats fetch, task mutation,
\* profile update
NextSession ==
    \/ Mount
    \/ Unmount
    \/ FetchTasks
    \/ FetchTasksResponse
    \/ FetchStatsResponse
    \/ CreateTask
    \/ CreateTaskResponse
    \/ UpdateProfile
    \/ UpdateProfileResponse

----------------------------------------------------------------------------
(* The server behind the task endpoints, as the interface describes it:    *)
(* it answers a request from the tasks it stores at that moment, and the   *)
(* response then travels to the client.  Responses may overtake each       *)
(* other.  A created record has the first title and an updated one the     *)
(* second; an identifier is given to one record only, once.                *)

\* GET /tasks/stats: the aggregate over the stored tasks (its `total`)
Aggregate(st) == Cardinality(st)

Answer(kind, status, message, data) == Resp(kind, status, message, NoToken, Null, data)

\* a stored task is selected by the query of a fetchTasks request: it has the
\* status the query names, the one attribute the records here carry
Selected(t, query) ==
    \A i \in 1 .. Len(query) : query[i][1] = "status" => t.status = query[i][2]

\* the outcomes of handling request r with the tasks st stored and the
\* identifiers of used given out: the tasks stored afterwards and the response
Handle(r, st, used) ==
    CASE r.op = "createTask" ->
             {[stored |-> st \cup {t}, resp |-> Answer("ok", 201, Undefined, <<t>>)] :
                 t \in {x \in Task : x.title = "x" /\ x._id \notin used}}
      [] r.op = "updateTask" ->
             IF \E y \in st : y._id = r.id
             THEN {[stored |-> {y \in st : y._id # r.id} \cup {t},
                    resp |-> Answer("ok", 200, Undefined, <<t>>)] :
                      t \in {x \in Task : x.title = "y" /\ x._id = r.id}}
             ELSE {[stored |-> st, resp |-> Answer("reject", 404, "Task not found", NoData)]}
      [] r.op = "deleteTask" ->
             IF \E y \in st : y._id = r.id
             THEN {[stored |-> st \ {y}, resp |-> Answer("ok", 200, Undefined, <<y>>)] :
                      y \in {x \in st : x._id = r.id}}
             ELSE {[stored |-> st, resp |-> Answer("reject", 404, "Task not found", NoData)]}
      [] r.op = "getTask" ->
             IF \E y \in st : y._id = r.id
             THEN {[stored |-> st, resp |-> Answer("ok", 200, Undefined, <<y>>)] :
                      y \in {x \in st : x._id = r.id}}
             ELSE {[stored |-> st, resp |-> Answer("reject", 404, "Task not found", NoData)]}
      [] r.op = "fetchStats" ->
             {[stored |-> st, resp |-> Answer("ok", 200, Undefined, <<Aggregate(st)>>)]}
      [] r.op = "fetchTasks" ->
             {[stored |-> st, resp |-> Answer("ok", 200, Undefined, l)] :
                 l \in {x \in TaskLists :
                           /\ Len(x) = Cardinality({t \in st : Selected(t, r.query)})
                           /\ \A i \in 1 .. Len(x) : x[i] \in st /\ Selected(x[i], r.query)}}

\* the server handles a request of the task endpoints
Serve ==
    \E r \in BagToSet(reqs) :
        /\ r.op \in TaskOps
        /\ r.form = "-"
        /\ \E out \in Handle(r, stored, issued) :
               /\ stored' = out.stored
               /\ issued' = issued \cup {t._id : t \in out.stored}
               /\ served' = Append(served, [req |-> r, resp |-> out.resp])
        /\ reqs' = Take(r)
        /\ last' = Ev("serve", r.id, r.live, NoResp, "void", <<>>, <<>>)
        /\ UNCHANGED <<token, user, authLoading, tasks, stats, taskLoading, provider, filters,
                       inOrder, form>>

\* what the task manager does with the response to r
Continuation(r, resp, held) ==
    CASE r.op = "fetchTasks" -> FetchTasksDone(resp, held)
      [] r.op = "fetchStats" -> FetchStatsDone(resp, held)
      [] r.op = "createTask" -> CreateTaskDone(resp, held)
      [] r.op = "updateTask" -> UpdateTaskDone(r.id, resp, held)
      [] r.op = "deleteTask" -> DeleteTaskDone(r.id, resp, held)
      [] r.op = "getTask" -> GetTaskDone(resp, held)

\* sequence q without its i-th element
Remove(q, i) == SubSeq(q, 1, i - 1) \o SubSeq(q, i + 1, Len(q))

\* the i-th response on its way is a stats response that arrives before one
\* the server computed earlier
Overtakes(q, i) ==
    /\ q[i].req.op = "fetchStats"
    /\ \E j \in 1 .. i - 1 : q[j].req.op = "fetchStats"

\* a response arrives, in any order, and the continuation awaiting it runs
Deliver ==
    \E i \in 1 .. Len(served) :
        LET m == served[i]
        IN \* bound: the held list is not grown past MaxTasks
           /\ (m.req.op = "createTask" /\ m.resp.kind = "ok" /\ m.req.live)
                  => Len(tasks) < MaxTasks
           /\ TaskStep(m.req, m.resp, Continuation(m.req, m.resp, Held), reqs)
           /\ served' = Remove(served, i)
           /\ inOrder' = (inOrder /\ ~Overtakes(served, i))
           /\ UNCHANGED <<filters, stored, issued, form>>

\* a user action may add to what is in flight
AnsweredRoom == BagCardinality(reqs) + Len(served) < MaxAnswered

\* task mutations against the server, each followed by its stats refresh
NextStats ==
    \/ Mount
    \/ AnsweredRoom /\ CreateTask
    \/ AnsweredRoom /\ DeleteTask
    \/ Serve
    \/ Deliver

\* the task operations of a page against the server, a call being made while
\* responses to earlier ones are on their way
NextRace ==
    \/ Mount
    \/ AnsweredRoom /\ FetchTasks
    \/ AnsweredRoom /\ CreateTask
    \/ AnsweredRoom /\ UpdateTask
    \/ AnsweredRoom /\ DeleteTask
    \/ Serve
    \/ Deliver

\* App has rendered what the session calls for: no TaskProvider is left on
\* screen where the protected route does not render its children
Rendered == provider = "mounted" => Protected

\* one session after another: the user logs out while the fetches of the
\* task manager may be in flight and somebody logs in.  The render that follows a change of the
\* session comes before any later event, so the provider of a lost session
\* unmounts before anything else happens.
NextIsolation ==
    \/ Unmount
    \/ Mount
    \/ Rendered /\ Logout
    \/ Rendered /\ Login
    \/ Rendered /\ LoginResponse
    \/ Rendered /\ FetchTasksResponse
    \/ Rendered /\ FetchStatsResponse

\* the Tasks page: its status filter is changed and tasks are created and
\* edited, against the server
NextFilter ==
    \/ Mount
    \/ AnsweredRoom /\ SetFilterOf(StatusChoices)
    \/ AnsweredRoom /\ CreateTask
    \/ AnsweredRoom /\ UpdateTask
    \/ Serve
    \/ Deliver

----------------------------------------------------------------------------
(* The forms: TaskForm in the modals of the Tasks page, the Register page  *)
(* and the edit form of the Profile page.  A form's submit control is      *)
(* disabled while its loading flag is set.                                 *)

\* a step of a form: the state of the managers as given, the form as fm
FormStep(tok, usr, rqs, ev, fm) ==
    /\ Assign(tok, usr, authLoading, tasks, stats, taskLoading, rqs, ev)
    /\ form' = fm
    /\ UNCHANGED <<filters, server>>

\* the event of a handleSubmit of form fm with the fields d at time at, which
\* sent the requests of `sent`
Submitted(fm, d, at, sent) ==
    [Ev("handleSubmit", fm.task, TRUE, NoResp, "void", <<>>,
        [i \in DOMAIN sent |-> sent[i].op])
     EXCEPT !.args = [kind |-> fm.kind, data |-> d, at |-> at]]

\* the Tasks page opens the create modal (task = NoId) or the edit modal of
\* a task of the list, which is rendered when the manager is not loading
OpenTaskForm ==
    \E t \in {NoId} \cup {tasks[i]._id : i \in DOMAIN tasks} :
        /\ Mounted
        /\ form.kind = "none"
        /\ t # NoId => ~taskLoading
        /\ FormStep(token, user, reqs, Ev("openForm", t, TRUE, NoResp, "void", <<>>, <<>>),
                    NewForm("task", t))

\* the Profile page switches to its edit form
OpenProfileForm ==
    /\ Mounted
    /\ form.kind = "none"
    /\ FormStep(token, user, reqs, Ev("openForm", NoId, TRUE, NoResp, "void", <<>>, <<>>),
                NewForm("profile", NoId))

\* the Register page is shown
OpenRegisterForm ==
    /\ PublicRoute(user, authLoading) = "children"
    /\ form.kind = "none"
    /\ FormStep(token, user, reqs, Ev("openForm", NoId, TRUE, NoResp, "void", <<>>, <<>>),
                NewForm("register", NoId))

\* a modal is closed, or the Profile edit is cancelled (its Cancel button is
\* disabled while loading): the form unmounts
CloseForm ==
    /\ form.kind = "task" \/ (form.kind = "profile" /\ ~form.loading)
    /\ FormStep(token, user, Orphan(reqs),
                Ev("closeForm", form.task, TRUE, NoResp, "void", <<>>, <<>>), NoForm)

\* faulty variant: the loading flag is not raised
TaskFormSubmit_NoLoading(fm, d, at) ==
    LET errs == TaskFormErrors(d, at)
        shown == [fm EXCEPT !.errors = errs]
    IN IF errs # {}
       THEN [form |-> shown, sent |-> <<>>]
       ELSE [form |-> shown,
             sent |-> <<FormReq(IF fm.task # NoId THEN "updateTask" ELSE "createTask",
                                fm.task)>>]

\* TaskForm.handleSubmit up to its await
TaskFormSubmit(fm, d, at) ==
    LET errs == TaskFormErrors(d, at)
        shown == [fm EXCEPT !.errors = errs]
    IN IF errs # {}
       THEN [form |-> shown, sent |-> <<>>]
       ELSE [form |-> [shown EXCEPT !.loading = TRUE],
             sent |-> <<FormReq(IF fm.task # NoId THEN "updateTask" ELSE "createTask",
                                fm.task)>>]

SubmitTaskFormOf(inputs, clocks) ==
    \E d \in inputs, at \in clocks :
        /\ Mounted
        /\ form.kind = "task"
        /\ ~form.loading
        /\ FormRoom
        /\ LET out == TaskFormSubmit(form, d, at)
           IN FormStep(token, user, reqs (+) SetToBag(Range(out.sent)),
                       Submitted(form, d, at, out.sent), out.form)

SubmitTaskForm == SubmitTaskFormOf(TaskInputs, Clocks)

\* TaskForm.handleSubmit after its await, for request r and the manager's
\* return value ret: a live Tasks page closes the modal of the request's
\* kind on success
TaskFormAfter(fm, r, ret) ==
    IF ret = "true" /\ r.live /\ fm.kind = "task"
       /\ ((r.op = "createTask") <=> (fm.task = NoId))
    THEN NoForm
    ELSE IF r.form = "open" THEN [fm EXCEPT !.loading = FALSE] ELSE fm

TaskFormResponse ==
    \E r \in FormInFlight({"createTask", "updateTask"}), resp \in TaskResponses :
        LET d == Continuation(r, resp, Held)
            fm == TaskFormAfter(form, r, d.ret)
        IN \* bound: the held list is not grown past MaxTasks
           /\ (r.op = "createTask" /\ resp.kind = "ok" /\ r.live) => Len(tasks) < MaxTasks
           /\ TaskStep(r, resp, d, IF fm = NoForm THEN Orphan(Take(r)) ELSE Take(r))
           /\ form' = fm
           /\ UNCHANGED <<filters, server>>

\* faulty variant: the request is sent whatever the validation found
RegisterSubmit_SendsAnyway(fm, d) ==
    [form |-> [fm EXCEPT !.errors = RegisterErrors(d), !.loading = TRUE],
     sent |-> <<FormReq("register", NoId)>>]

\* Register.handleSubmit up to its await
RegisterSubmit(fm, d) ==
    LET errs == RegisterErrors(d)
        shown == [fm EXCEPT !.errors = errs]
    IN IF errs # {}
       THEN [form |-> shown, sent |-> <<>>]
       ELSE [form |-> [shown EXCEPT !.loading = TRUE], sent |-> <<FormReq("register", NoId)>>]

SubmitRegisterFormOf(inputs) ==
    \E d \in inputs :
        /\ PublicRoute(user, authLoading) = "children"
        /\ form.kind = "register"
        /\ ~form.loading
        /\ FormRoom
        /\ LET out == RegisterSubmit(form, d)
           IN FormStep(token, user, reqs (+) SetToBag(Range(out.sent)),
                       Submitted(form, d, NoClock, out.sent), out.form)

SubmitRegisterForm == SubmitRegisterFormOf(RegisterInputs)

\* Register.handleSubmit after its await; the page unmounts when the public
\* route stops rendering it
RegisterFormAfter(fm, r, ret, usr) ==
    IF r.form # "open" THEN fm
    ELSE IF PublicRoute(usr, authLoading) # "children" THEN NoForm
    ELSE [fm EXCEPT !.loading = FALSE,
                    !.errors = IF ret = "true" THEN @
                               ELSE {<<"general", "Registration failed. Please try again.">>}]

\* the answers to a registration that open the session of InitSession or none
RegisterOutcomes ==
    {Resp("ok", 200, Undefined, "t1", "u1", NoData)} \cup Failures

RegisterFormResponseOf(resps) ==
    \E r \in FormInFlight({"register"}), resp \in resps :
        LET d == RegisterDone(resp, Interceptor("register", resp, Session))
            fm == RegisterFormAfter(form, r, d.ret, d.user)
        IN FormStep(d.token, d.user, IF fm = NoForm THEN Orphan(Take(r)) ELSE Take(r),
                    Ev("register", NoId, TRUE, resp, d.ret, d.toasts, <<>>), fm)

RegisterFormResponse == RegisterFormResponseOf(SessionResponses)

\* Profile.handleSubmit up to its await
ProfileSubmit(fm, d) ==
    LET errs == ProfileErrors(d)
        shown == [fm EXCEPT !.errors = errs]
    IN IF errs # {}
       THEN [form |-> shown, sent |-> <<>>]
       ELSE [form |-> [shown EXCEPT !.loading = TRUE],
             sent |-> <<FormReq("updateProfile", NoId)>>]

SubmitProfileForm ==
    \E d \in ProfileInputs :
        /\ Mounted
        /\ form.kind = "profile"
        /\ ~form.loading
        /\ FormRoom
        /\ LET out == ProfileSubmit(form, d)
           IN FormStep(token, user, reqs (+) SetToBag(Range(out.sent)),
                       Submitted(form, d, NoClock, out.sent), out.form)

\* Profile.handleSubmit after its await: success leaves the edit form
ProfileFormAfter(fm, r, ret) ==
    IF r.form # "open" THEN fm
    ELSE IF ret = "true" THEN NoForm
    ELSE [fm EXCEPT !.loading = FALSE]

ProfileFormResponse ==
    \E r \in FormInFlight({"updateProfile"}), resp \in UserResponses :
        LET d == UpdateProfileDone(resp, Interceptor("updateProfile", resp, Session))
            fm == ProfileFormAfter(form, r, d.ret)
        IN FormStep(d.token, d.user, IF fm = NoForm THEN Orphan(Take(r)) ELSE Take(r),
                    Ev("updateProfile", NoId, TRUE, resp, d.ret, d.toasts, <<>>), fm)

\* no request is in flight
Idle == reqs = EmptyBag

\* the three forms of a session and of the visitor it leaves behind when it
\* logs out; the user logs out or opens a form while no request is in flight
NextForms ==
    \/ Mount
    \/ Unmount
    \/ Idle /\ Logout
    \/ FetchTasksResponse
    \/ FetchStatsResponse
    \/ Idle /\ OpenTaskForm
    \/ SubmitTaskForm
    \/ TaskFormResponse
    \/ Idle /\ OpenProfileForm
    \/ SubmitProfileForm
    \/ ProfileFormResponse
    \/ CloseForm
    \/ Idle /\ OpenRegisterForm
    \/ SubmitRegisterForm
    \/ RegisterFormResponseOf(RegisterOutcomes)

\* Tasks.isOverdue, for a due date that is the start of a day, UTC, as the
\* task form sends it, at the time now
isOverdue(dueDate, status, now) ==
    status # "completed" /\ DateTime(dueDate) < now

Statuses == {"pending", "in-progress", "completed"}

\* the Tasks page renders the due date of a row of its list, for a task with
\* the given due date and status
RenderDueDate ==
    \E dueDate \in DueDateCases, status \in Statuses, at \in EveryClock :
        /\ Mounted
        /\ ~taskLoading
        /\ tasks # <<>>
        /\ FormStep(token, user, reqs,
                    [Ev("render", NoId, TRUE, NoResp,
                        IF isOverdue(dueDate, status, at.now) THEN "overdue" ELSE "due",
                        <<>>, <<>>)
                     EXCEPT !.args = [dueDate |-> dueDate, status |-> status, at |-> at]],
                    form)

\* the task list on screen
NextOverdue ==
    \/ Mount
    \/ FetchTasksResponse
    \/ FetchStatsResponse
    \/ RenderDueDate

\* the validation of the task form and of the Register form, on fields at and
\* around the limits of the rules; no response arrives
NextValidate ==
    \/ Mount
    \/ OpenTaskForm
    \/ SubmitTaskFormOf(UndatedTaskInputs, Clocks)
    \/ SubmitTaskFormOf(DatedTaskInputs, EveryClock)
    \/ CloseForm
    \/ Logout
    \/ Unmount
    \/ OpenRegisterForm
    \/ SubmitRegisterFormOf(EveryRegisterInput)

\* every step of the forms
NextFormsAll ==
    \/ OpenTaskForm
    \/ SubmitTaskForm
    \/ TaskFormResponse
    \/ OpenProfileForm
    \/ SubmitProfileForm
    \/ ProfileFormResponse
    \/ CloseForm
    \/ OpenRegisterForm
    \/ SubmitRegisterForm
    \/ RegisterFormResponse

\* calls of fetchTasks with every kind of argument, one request at a time
NextQuery ==
    \/ Mount
    \/ Unmount
    \/ FetchTasksWith
    \/ FetchTasksResponse
    \/ FetchStatsResponse

\* the Tasks page: filter changes that overlap with the fetches in flight
NextFetch ==
    \/ Mount
    \/ Unmount
    \/ SetFilter
    \/ ClearFilters
    \/ FetchTasksResponse
    \/ FetchStatsResponse

\* every operation of the two managers, called while no request is in flight
NextSerial ==
    \/ CheckAuthStatus
    \/ CheckAuthStatusResponse
    \/ Idle /\ Login
    \/ LoginResponse
    \/ Idle /\ Register
    \/ RegisterResponse
    \/ Logout
    \/ Idle /\ UpdateProfile
    \/ UpdateProfileResponse
    \/ Mount
    \/ Unmount
    \/ Idle /\ FetchTasks
    \/ FetchTasksResponse
    \/ FetchStatsResponse
    \/ Idle /\ CreateTask
    \/ CreateTaskResponse
    \/ Idle /\ UpdateTask
    \/ UpdateTaskResponse
    \/ Idle /\ DeleteTask
    \/ DeleteTaskResponse
    \/ Idle /\ GetTask
    \/ GetTaskResponse

\* a session established by a login, as the protected route starts to render
InitSession ==
    /\ token = "t1"
    /\ user = "u1"
    /\ authLoading = FALSE
    /\ tasks = <<>>
    /\ stats = NoStats
    /\ taskLoading = FALSE
    /\ provider = "absent"
    /\ filters = InitialFilters
    /\ stored = {}
    /\ served = <<>>
    /\ issued = {}
    /\ inOrder = TRUE
    /\ form = NoForm
    /\ reqs = EmptyBag
    /\ last = Ev("login", NoId, TRUE, Resp("ok", 200, Undefined, token, user, NoData),
                 "true", <<Toast("success", "Login successful!")>>, <<>>)

Next == NextAuth \/ NextTask \/ NextQuery \/ NextFetch \/ NextStats \/ NextRace \/ NextFilter \/ NextIsolation \/ NextFormsAll \/ NextValidate \/ NextOverdue

\* the whole client
Spec == Init /\ [][Next]_vars

\* the auth session manager alone
SpecAuth == Init /\ [][NextAuth]_vars

\* the task manager of an established session
SpecTask == InitSession /\ [][NextTask]_vars

\* the protected area of an established session
SpecSession == InitSession /\ [][NextSession]_vars

\* the callers of fetchTasks in an established session
SpecQuery == InitSession /\ [][NextQuery]_vars

\* the Tasks page of an established session
SpecFetch == InitSession /\ [][NextFetch]_vars

\* both managers from the start of the application, one call at a time
SpecSerial == Init /\ [][NextSerial]_vars

\* the task manager of an established session and the server that answers it
SpecStats == InitSession /\ [][NextStats]_vars

\* the forms and the requests they send
SpecForms == InitSession /\ [][NextForms]_vars

\* the validation rules of the forms
SpecValidate == InitSession /\ [][NextValidate]_vars

\* calls and responses of the task manager that overtake each other
SpecRace == InitSession /\ [][NextRace]_vars

\* sessions that follow each other in one page
SpecIsolation == InitSession /\ [][NextIsolation]_vars

\* the filters of the Tasks page against the server
SpecFilter == InitSession /\ [][NextFilter]_vars

\* the overdue mark of the task list
SpecOverdue == InitSession /\ [][NextOverdue]_vars

----------------------------------------------------------------------------
(* Properties.  `last` describes the handler of the latest step, so in an  *)
(* action formula last' names the handler that took the step, the unprimed *)
(* variables are the state it started from and the primed ones the state   *)
(* it left.                                                                *)

Completed(ev, ops) == ev.op \in ops /\ ev.resp.kind \in {"ok", "fail", "reject"}
Succeeded(ev, ops) == ev.op \in ops /\ ev.resp.kind = "ok"
Failed(ev, ops) == ev.op \in ops /\ ev.resp.kind \in {"fail", "reject"}

\* the text of a failure notification: the server's message when it sent one
ExpectedText(ev, generic) ==
    IF ev.resp.message = Undefined \/ ev.resp.message = "" THEN generic ELSE ev.resp.message

GenericText(op) ==
    CASE op = "login" -> "Login failed"
      [] op = "register" -> "Registration failed"
      [] op = "updateProfile" -> "Profile update failed"
      [] op = "createTask" -> "Failed to create task"
      [] op = "updateTask" -> "Failed to update task"
      [] op = "deleteTask" -> "Failed to delete task"

OneError(ev) ==
    ev.toasts = <<Toast("error", ExpectedText(ev, GenericText(ev.op)))>>

\* C1: when a login or register response has success=true, the stored token is
\* the token of the response, the user is the user of the response, and the
\* operation returns true.
C1_SuccessStoresSession ==
    Succeeded(last, {"login", "register"}) =>
        /\ token = last.resp.token
        /\ user = last.resp.user
        /\ last.ret = "true"

C1_Witness ==
    /\ Succeeded(last, {"register"})
    /\ last.resp.token = "t2"
    /\ token = "t2"
    /\ user = last.resp.user

\* C2: on every failure path of login and register (success=false or a rejected
\* request) the operation returns false, emits exactly one error notification,
\* whose text is the server's message when there is one and the generic text
\* otherwise, and leaves the stored token and the user as they were.
C2_FailureLeavesSession ==
    [][Failed(last', {"login", "register"}) =>
        /\ last'.ret = "false"
        /\ OneError(last')
        /\ token' = token
        /\ user' = user]_vars

\* a login fails while a session is stored
C2_Witness ==
    /\ Failed(last, {"login"})
    /\ last.resp.kind = "reject"
    /\ last.toasts = <<Toast("error", "Login failed")>>
    /\ token \in Tokens
    /\ user \in Users

\* C3: logout leaves the stored token absent and the user null as soon as it
\* returns, and sends no request.
C3_LogoutClears ==
    [][last'.op = "logout" =>
        /\ token' = NoToken
        /\ user' = Null
        /\ last'.sent = <<>>
        /\ reqs' = reqs]_vars

\* logout ran while a request was in flight
C3_Witness ==
    /\ last.op = "logout"
    /\ token = NoToken
    /\ user = Null
    /\ reqs # EmptyBag

\* C4: on initialization, without a stored token no request is sent and the
\* user stays null; with a stored token /auth/me is requested, any failure of
\* it removes the token and leaves the user null, and success sets the user to
\* the response user and keeps the token.
C4_InitialCheck ==
    [][last'.op = "checkAuthStatus" =>
        CASE last'.resp.kind = "call" ->
                 IF token = NoToken
                 THEN reqs' = reqs /\ last'.sent = <<>> /\ user' = Null /\ token' = NoToken
                 ELSE reqs' = reqs (+) SetToBag({Req("me", NoId, TRUE)})
                      /\ last'.sent = <<"me">>
          [] last'.resp.kind = "ok" ->
                 user' = last'.resp.user /\ token' = token /\ token' \in Tokens
          [] OTHER ->
                 token' = NoToken /\ user' = Null]_vars

\* the check of a stored token failed with a success=false body
C4_Witness ==
    /\ last.op = "checkAuthStatus"
    /\ last.resp.kind = "fail"
    /\ token = NoToken
    /\ user = Null
    /\ ~authLoading

C7_CreatePrepends ==
    [][(Succeeded(last', {"createTask"}) /\ last'.live) =>
        /\ Len(tasks') = Len(tasks) + 1
        /\ tasks'[1] = last'.resp.data[1]
        /\ \A i \in 1 .. Len(tasks) : tasks'[i + 1] = tasks[i]
        /\ last'.ret = "true"]_vars

\* a record was put in front of a list that held another record
C7_Witness ==
    /\ Succeeded(last, {"createTask"})
    /\ last.live
    /\ Len(tasks) = 2
    /\ tasks[1] = last.resp.data[1]
    /\ tasks[2] # tasks[1]

\* C8: when an updateTask(id) response has success=true, the held list keeps
\* its length and order, every record whose identifier is id is replaced by
\* the returned record and every other record is unchanged; with no record of
\* that identifier the list is unchanged.
C8_UpdateReplacesInPlace ==
    [][(Succeeded(last', {"updateTask"}) /\ last'.live) =>
        /\ Len(tasks') = Len(tasks)
        /\ \A i \in 1 .. Len(tasks) :
              tasks'[i] = IF tasks[i]._id = last'.id THEN last'.resp.data[1] ELSE tasks[i]
        /\ ((\A i \in 1 .. Len(tasks) : tasks[i]._id # last'.id) => tasks' = tasks)]_vars

\* the second of two records was replaced and the first was left alone
C8_Witness ==
    /\ Succeeded(last, {"updateTask"})
    /\ last.live
    /\ Len(tasks) = 2
    /\ tasks[1]._id # last.id
    /\ tasks[2] = last.resp.data[1]
    /\ tasks[2]._id = last.id

RECURSIVE Without(_, _)
Without(id, l) ==
    IF l = <<>> THEN <<>>
    ELSE IF Head(l)._id = id THEN Without(id, Tail(l))
    ELSE <<Head(l)>> \o Without(id, Tail(l))

\* C9: when a deleteTask(id) response has success=true, the held list holds no
\* record with identifier id and holds all other records in their previous
\* relative order.
C9_DeleteRemoves ==
    [][(Succeeded(last', {"deleteTask"}) /\ last'.live) =>
        /\ \A i \in 1 .. Len(tasks') : tasks'[i]._id # last'.id
        /\ tasks' = Without(last'.id, tasks)]_vars

\* a delete succeeded and a record of the other identifier is still held
C9_Witness ==
    /\ Succeeded(last, {"deleteTask"})
    /\ last.live
    /\ Len(tasks) = 1
    /\ tasks[1]._id # last.id

\* C10: on any failure of createTask, updateTask or deleteTask the held list and
\* the held stats are unchanged, no stats request is sent, one error
\* notification is emitted and false is returned.
C10_MutationFailure ==
    [][Failed(last', {"createTask", "updateTask", "deleteTask"}) =>
        /\ tasks' = tasks
        /\ stats' = stats
        /\ last'.sent = <<>>
        /\ Count({"fetchStats"})' = Count({"fetchStats"})
        /\ OneError(last')
        /\ last'.ret = "false"]_vars

\* an update failed while a list and a snapshot were held
C10_Witness ==
    /\ Failed(last, {"updateTask"})
    /\ last.live
    /\ tasks # <<>>
    /\ stats # NoStats

\* C11: when a fetchTasks response has success=true, the held list becomes
\* exactly the list of the response, whatever it held before; when the request
\* fails or the body has success=false, the held list is unchanged.
C11_FetchReplacesList ==
    [][(Completed(last', {"fetchTasks"}) /\ last'.live) =>
        IF last'.resp.kind = "ok"
        THEN tasks' = last'.resp.data
        ELSE tasks' = tasks]_vars

\* a fetch was answered with one record, which is now the whole held list
C11_Witness ==
    /\ Succeeded(last, {"fetchTasks"})
    /\ last.live
    /\ Len(last.resp.data) = 1
    /\ tasks = last.resp.data
    /\ stats # NoStats

\* the <<key, value>> pairs of a sequence of pairs
Pairs(q) == {q[i] : i \in 1 .. Len(q)}

\* C12: the query parameters of the request of fetchTasks(filters) are exactly
\* the keys of filters whose value is non-empty, each once and with its given
\* value; a key with an empty or missing value is not sent, and a call without
\* filters sends no query parameter.
C12_QueryParams ==
    [][(last'.op = "fetchTasks" /\ last'.resp.kind = "call") =>
        \E r \in BagToSet(reqs') :
            /\ reqs' = reqs (+) SetToBag({r})
            /\ r.op = "fetchTasks"
            /\ \A i, j \in 1 .. Len(r.query) : r.query[i][1] = r.query[j][1] => i = j
            /\ Pairs(r.query) = {p \in Pairs(last'.args.keys) : p[2] # "" /\ p[2] # Undefined}
            /\ (~last'.args.given => r.query = <<>>)]_vars

\* a call with an empty status, a priority and a missing category sent the
\* priority alone
C12_Witness ==
    /\ last.op = "fetchTasks"
    /\ last.resp.kind = "call"
    /\ last.args = Given(<<<<"status", "">>, <<"priority", "high">>, <<"category", Undefined>>>>)
    /\ \E r \in InFlight("fetchTasks") : r.query = <<<<"priority", "high">>>>

Mutations == {"createTask", "updateTask", "deleteTask"}

\* C13: every createTask, updateTask or deleteTask that succeeds sends one
\* stats request (GET /tasks/stats) before it returns: the step that completes
\* it leaves one more stats request in flight than before, and returns true.
C13_MutationRefreshesStats ==
    [][Succeeded(last', Mutations) =>
        /\ last'.sent = <<"fetchStats">>
        /\ Count({"fetchStats"})' = Count({"fetchStats"}) + 1
        /\ reqs' = (reqs (-) SetToBag({[Req(last'.op, last'.id, last'.live)
                                          EXCEPT !.query = last'.query]}))
                    (+) SetToBag({Req("fetchStats", NoId, last'.live)})
        /\ last'.ret = "true"]_vars

\* an update succeeded and its stats request is in flight
C13_Witness ==
    /\ Succeeded(last, {"updateTask"})
    /\ last.live
    /\ last.sent = <<"fetchStats">>
    /\ InFlight("fetchStats") # {}
    /\ stats # NoStats

\* every request that was sent has been answered and its continuation has run
Resolved == reqs = EmptyBag /\ served = <<>>

C15_GetTaskFrame ==
    [][last'.op = "getTask" =>
        /\ tasks' = tasks
        /\ stats' = stats
        /\ taskLoading' = taskLoading
        /\ (last'.resp.kind = "ok" => last'.ret = <<last'.resp.data[1]>>)
        /\ (last'.resp.kind \in {"fail", "reject"} => last'.ret = <<>>)]_vars

\* a record was returned while another list and a snapshot were held
C15_Witness ==
    /\ Succeeded(last, {"getTask"})
    /\ last.live
    /\ Len(last.ret) = 1
    /\ last.ret[1]._id = last.id
    /\ tasks # <<>>
    /\ tasks # last.ret
    /\ stats # NoStats

ManagerOps ==
    {"login", "register", "updateProfile", "checkAuthStatus",
     "fetchTasks", "fetchStats", "getTask"} \cup Mutations

\* the handler ran to its end and gave its caller a value of its return type:
\* a boolean that tells whether the response had success=true, a record or
\* null, or nothing
Returned(ev) ==
    CASE ev.op \in {"login", "register", "updateProfile"} \cup Mutations ->
             ev.ret = IF ev.resp.kind = "ok" THEN "true" ELSE "false"
      [] ev.op = "getTask" ->
             ev.ret = <<>> \/ ev.ret = ev.resp.data
      [] OTHER ->
             ev.ret = "void"

\* C16: no operation of the two managers propagates an exception to its
\* caller: for every outcome of the request (success=true, success=false, a
\* rejection with or without a response) the operation returns normally.
C16_NoException ==
    Completed(last, ManagerOps) => Returned(last)

\* a stats request was rejected without any response while a list was held
C16_Witness ==
    /\ last.op = "fetchStats"
    /\ last.resp.kind = "reject"
    /\ last.resp.status = 0
    /\ last.ret = "void"
    /\ tasks # <<>>

\* a fetchTasks request of the mounted provider is in flight
Fetching == \E r \in InFlight("fetchTasks") : r.live

\* C17: with overlapping fetchTasks calls the held list is at every moment the
\* payload of the successful response that arrived last, whichever call it
\* answers: a successful response replaces the list, and nothing else but the
\* mount of a new provider changes it.
C17_LastArrivalWins ==
    [][tasks' = IF Succeeded(last', {"fetchTasks"}) /\ last'.live
                THEN last'.resp.data
                ELSE IF last'.op = "mount" THEN <<>> ELSE tasks]_vars

\* both calls have resolved and the response that arrived last answers the
\* call made before the latest filter change: its payload is the held list
C17_Witness ==
    /\ provider = "mounted"
    /\ ~Fetching
    /\ Succeeded(last, {"fetchTasks"})
    /\ last.live
    /\ last.query # Params(QueryParams(filters))
    /\ tasks = last.resp.data
    /\ tasks # <<>>

\* C18: the loading flag of the mounted task manager is true while at least
\* one of its fetchTasks requests is in flight and false when none is, also
\* with overlapping calls.
C18_LoadingWhileFetching ==
    provider = "mounted" => (taskLoading <=> Fetching)

\* the requests in flight whose form instance is still on screen
OpenRequests == FormInFlight({"createTask", "updateTask", "register", "updateProfile"})

\* the number of requests in flight of the form instance on screen
OpenCount == BagCardinality([r \in {x \in OpenRequests : x.form = "open"} |-> reqs[r]])

\* C19: a TaskForm instance has at most one mutating request in flight: a
\* valid submit sends exactly one request, createTask when the form has no
\* task and updateTask of its task otherwise, an invalid one sends none,
\* and from the submit until the response the instance is loading, which
\* disables its submit control
C19_OneRequestPerForm ==
    /\ [](/\ OpenCount <= 1
          /\ \A r \in OpenRequests :
                 r.form = "open" =>
                     /\ form.loading
                     /\ form.kind = "task" =>
                            /\ r.op = IF form.task = NoId THEN "createTask" ELSE "updateTask"
                            /\ r.id = form.task
          /\ (form.kind = "task" /\ form.loading) => OpenCount = 1)
    /\ [][(last'.op = "handleSubmit" /\ form.kind = "task")
             => /\ ~form.loading
                /\ OpenCount = 0
                /\ form'.loading <=> form'.errors = {}
                /\ reqs' = IF form'.errors = {}
                           THEN Put(reqs, FormReq(IF form.task = NoId THEN "createTask"
                                                  ELSE "updateTask", form.task))
                           ELSE reqs]_vars

\* an edit form has just been submitted with valid fields: it is loading and
\* the update of its task is its one request in flight
C19_Witness ==
    /\ form.kind = "task"
    /\ form.task # NoId
    /\ form.loading
    /\ last.op = "handleSubmit"
    /\ OpenCount = 1
    /\ \E r \in OpenRequests : r.form = "open" /\ r.op = "updateTask" /\ r.id = form.task

\* the fields of a submitted form (an event's args) that fail their rule
FailingFields(fm) ==
    LET d == fm.data
    IN CASE fm.kind = "task" ->
              {f \in {"title"} : Trim(d.title) = <<>> \/ Len(d.title) > 100}
              \cup {f \in {"description"} : Len(d.description) > 500}
              \cup {f \in {"category"} : Len(d.category) > 50}
              \cup {f \in {"dueDate"} :
                        d.dueDate # <<>> /\ d.dueDate[1] < (fm.at.now + fm.at.off) \div 24}
         [] fm.kind = "register" ->
              {f \in {"name"} : Len(d.name) < 2}
              \cup {f \in {"email"} : ~EmailPattern(d.email)}
              \cup {f \in {"password"} : Len(d.password) < 6}
              \cup {f \in {"confirmPassword"} :
                        d.confirmPassword = <<>> \/ d.confirmPassword # d.password}
         [] fm.kind = "profile" ->
              {f \in {"name"} : Len(Trim(d.name)) < 2}
              \cup {f \in {"email"} : ~EmailPattern(d.email)}

\* C20: a submit of any of the three forms that fails validation sends no
\* request and leaves the form not loading, with an error message recorded
\* for every field that fails its rule; a submit that sends a request
\* recorded no error
C20_InvalidSubmitSendsNothing ==
    [][last'.op = "handleSubmit"
         => /\ FailingFields(last'.args) \subseteq {e[1] : e \in form'.errors}
            /\ form'.errors # {} => (reqs' = reqs /\ last'.sent = <<>> /\ ~form'.loading)
            /\ form'.errors = {} => (reqs' # reqs /\ Len(last'.sent) = 1)]_vars

\* the Register form was submitted with three failing fields: three
\* messages are shown and nothing is in flight
C20_Witness ==
    /\ last.op = "handleSubmit"
    /\ form.kind = "register"
    /\ Cardinality(FailingFields(last.args)) >= 3
    /\ Cardinality(form.errors) >= 3
    /\ ~form.loading
    /\ reqs = EmptyBag

\* the calendar day, in the time zone of the clock, at which a form is validated
Today(at) == (at.now + at.off) \div 24

\* the rules of the task form on the fields d at the clock at
TaskRules(d, at) ==
    /\ Trim(d.title) # <<>>
    /\ Len(d.title) <= 100
    /\ d.description = <<>> \/ Len(d.description) <= 500
    /\ d.category = <<>> \/ Len(d.category) <= 50
    /\ d.dueDate = <<>> \/ d.dueDate[1] >= Today(at)

\* a task form has just been validated
TaskValidated == last.op = "handleSubmit" /\ last.args.kind = "task"

\* C21: the task form accepts its fields exactly when the title is non-blank
\* and at most 100 characters, the description empty or at most 500, the
\* category empty or at most 50, and the due date empty or not before the
\* current day
C21_TaskFormRules ==
    TaskValidated => (form.errors = {} <=> TaskRules(last.args.data, last.args.at))

\* C22: the due-date check of the task form works on days: a due date is
\* rejected exactly when its day is before the current calendar day, at any
\* time of that day
C22_DayGranularity ==
    (TaskValidated /\ last.args.data.dueDate # <<>>)
        => ((\E e \in form.errors : e[1] = "dueDate")
                <=> last.args.data.dueDate[1] < Today(last.args.at))

\* a Register form has just been validated
RegisterValidated == last.op = "handleSubmit" /\ last.args.kind = "register"

\* the rules of the Register form on the fields d, but for the name
RegisterRules(d) ==
    /\ d.email # <<>>
    /\ EmailPattern(d.email)
    /\ Len(d.password) >= 6
    /\ d.confirmPassword # <<>>
    /\ d.confirmPassword = d.password

\* C23 as stated: the Register form accepts its fields exactly when the name
\* is present, the email is present and of the shape x@y.z, the password
\* has at least 6 characters and the confirmation is present and equal to
\* it, and register is called only then
C23_AsStated ==
    RegisterValidated
        => LET d == last.args.data
               pass == d.name # <<>> /\ RegisterRules(d)
           IN /\ form.errors = {} <=> pass
              /\ last.sent = <<"register">> <=> pass

\* C23, amended: the Register form accepts its fields exactly when the name
\* has at least 2 characters, the email is present and of the shape x@y.z,
\* the password has at least 6 characters and the confirmation is present
\* and equal to it, and register is called exactly then
C23_RegistrationRules ==
    RegisterValidated
        => LET d == last.args.data
               pass == Len(d.name) >= 2 /\ RegisterRules(d)
           IN /\ form.errors = {} <=> pass
              /\ last.sent = <<"register">> <=> pass
              /\ last.sent = <<>> <=> ~pass

\* a form with a name of two characters and a password of six was accepted
\* and its registration request is in flight
C23_Witness ==
    /\ RegisterValidated
    /\ Len(last.args.data.name) = 2
    /\ Len(last.args.data.password) = 6
    /\ form.errors = {}
    /\ form.loading
    /\ last.sent = <<"register">>
    /\ FormInFlight({"register"}) # {}

\* C24: a row of the task list is marked overdue exactly when the status of
\* its task is not completed and its due date is before the current day; a
\* completed task is never marked
C24_OverdueRule ==
    last.op = "render"
        => /\ last.ret = "overdue"
                  <=> /\ last.args.status # "completed"
                      /\ last.args.dueDate[1] < Today(last.args.at)
           /\ last.args.status = "completed" => last.ret = "due"

\* C25: in every state a user in memory implies a stored token, whatever the
\* order in which login, register, logout and updateProfile are called and
\* their responses arrive
C25_SessionConsistency == user # Null => token # NoToken

\* a handler of a page was called: the event of a call, not of a response
Called(ev, ops) == ev.op \in ops /\ ev.resp = NoResp

\* C26: the protected route renders its children exactly where the auth
\* loading flag is false and the user is non-null, the public route exactly
\* where the flag is false and the user is null, and neither while the
\* flag is true; the task manager is mounted and the protected pages send
\* their requests only where the protected route renders, the Login and
\* Register pages theirs only where the public route does
C26_RouteGuards ==
    /\ [](/\ (ProtectedRoute(user, authLoading) = "children")
                 <=> (~authLoading /\ user # Null)
          /\ (PublicRoute(user, authLoading) = "children")
                 <=> (~authLoading /\ user = Null)
          /\ authLoading => /\ ProtectedRoute(user, authLoading) = "spinner"
                            /\ PublicRoute(user, authLoading) = "spinner")
    /\ [][/\ Called(last', TaskOps \cup {"mount", "updateProfile"})
                 => (~authLoading /\ user # Null)
          /\ Called(last', {"login", "register"})
                 => (~authLoading /\ user = Null)]_vars

\* the task manager of a session has just been mounted
C26_Witness ==
    /\ last.op = "mount"
    /\ provider = "mounted"
    /\ ~authLoading
    /\ user # Null
    /\ Count({"fetchTasks"}) = 1

\* C27: the held task list never holds two records with the same identifier,
\* in whatever order the calls are made and their responses arrive, the
\* server giving every record it creates a fresh identifier
C27_NoDuplicateIds == DistinctIds(tasks)

\* the identifiers of the held records
HeldIds(l) == {l[i]._id : i \in 1 .. Len(l)}

\* a held record is gone from the list after the step
Dropped(id) == id \in HeldIds(tasks) /\ id \notin HeldIds(tasks')

\* C28 as stated, for the task manager whose only fetchTasks is the one its
\* mounting issues, before any record can be created: a held record, each
\* one added by a successful createTask, leaves the list only by a
\* successful deleteTask of its identifier
C28_AsStated ==
    [][\A id \in TaskIds :
           Dropped(id) => /\ Succeeded(last', {"deleteTask"})
                          /\ last'.id = id]_vars

\* C28: a held record leaves the list only by a successful deleteTask of its
\* identifier, by a successful updateTask of its identifier that returns a
\* record with another identifier, or by the list being replaced with the
\* response of a fetchTasks that arrives while it is held, whenever that
\* fetchTasks was issued
C28_CreatedRecordStays ==
    [][\A id \in TaskIds :
           Dropped(id) => /\ last'.live
                          /\ \/ Succeeded(last', {"deleteTask"}) /\ last'.id = id
                             \/ Succeeded(last', {"updateTask"}) /\ last'.id = id
                             \/ Succeeded(last', {"fetchTasks"})]_vars

\* the response of the fetchTasks issued before the creation has replaced the
\* list and the created record, still stored by the server, is not held
C28_Witness ==
    /\ Succeeded(last, {"fetchTasks"})
    /\ last.live
    /\ tasks = <<>>
    /\ stored # {}

\* a record satisfies the filters selected on the Tasks page; the records
\* here carry a status, and the priority and category filters stay on "All"
Satisfies(t, fl) ==
    /\ Truthy(fl.status) => t.status = fl.status
    /\ ~Truthy(fl.priority)
    /\ ~Truthy(fl.category)

\* C29: whenever no request is in flight, every record of the held list
\* satisfies all the filters selected on the Tasks page, after any sequence
\* of filter changes, createTask and updateTask
C29_HeldSatisfiesFilters ==
    (Resolved /\ provider = "mounted")
        => \A i \in 1 .. Len(tasks) : Satisfies(tasks[i], filters)

\* C30: the task state of a session holds nothing of the session before it:
\* no task manager is on screen at the moment a session is established, the
\* task manager mounted for a session starts with the empty list and no
\* stats, and the response to a request of an unmounted task manager, one of
\* an earlier session, changes neither the held list nor the held stats,
\* whenever it arrives
C30_SessionIsolation ==
    [][/\ (user = Null /\ user' # Null) => provider' = "absent"
       /\ last'.op = "mount" => (tasks' = <<>> /\ stats' = NoStats)
       /\ ~last'.live => (tasks' = tasks /\ stats' = stats)]_vars

\* the first session was of u1; u2 has logged in, the task manager of the new
\* session is mounted, and the list fetched by the earlier session has just
\* arrived and is not held
C30_Witness ==
    /\ user = "u2"
    /\ Mounted
    /\ Succeeded(last, {"fetchTasks"})
    /\ ~last.live
    /\ last.resp.data # <<>>
    /\ tasks = <<>>

====
